---- MODULE Spec2Model ----
(***************************************************************************)
(* Flappy Bird (src/App.js): the game loop of the App component.           *)
(*                                                                         *)
(* Lengths and velocities are fixed-point numbers in tenths of a pixel     *)
(* (GRAVITY 0.6 is 6, PIPE_SPEED 3.2 is 32, JUMP_VELOCITY -10.5 is -105).  *)
(*                                                                         *)
(* React state (running, gameOver, score, best, pipes) changes only when   *)
(* React renders; refs (birdY, birdV, loopRef) change at once.  A press    *)
(* handler's updates are flushed before the handler's event ends, so Press *)
(* and Reset include their render.  The interval callback only queues its  *)
(* two setPipes updaters; React runs them in a later render, and the timer *)
(* may fire again before that render: pendingTicks counts the callbacks    *)
(* whose updaters are queued, pendingGameOver the updates queued by a      *)
(* triggerGameOver() that the callback itself called.                      *)
(***************************************************************************)
EXTENDS Integers, Sequences, FiniteSets

\* ---------------------------------------------------------------- bounds
\* Presses accepted while one game is running.
MaxJumps == 1
\* Timer callbacks that may fire while an earlier callback's updaters are
\* still queued.
MaxBacklog == 1
\* Further presses accepted between two ticks after the first one.
MaxRepeat == 1
\* Greatest coordinate of a rectangle given to intersects on its own.
MaxCoord == 2

\* ------------------------------------------------------------- constants
\* Dimensions.get("window"), read once when the module loads: a window 120
\* wide, and 300 high (ReferenceHeight) or 250 high (SmallHeight), where
\* SCREEN_HEIGHT - 200 is below minTop.
SCREEN_WIDTH == 1200
ReferenceHeight == 3000
SmallHeight == 2500
BIRD_SIZE == 400
GRAVITY == 6
JUMP_VELOCITY == -105
PIPE_WIDTH == 700
PIPE_GAP == 1700
PIPE_SPEED == 32
BIRD_X == (SCREEN_WIDTH * 25) \div 100
minTop == 600

Slots == {1, 2}
NoTimer == "null"
Timer == "interval"

VARIABLES
    windowHeight,                     \* Dimensions.get("window").height
    running, gameOver, score, best,   \* useState
    pipes,                            \* useState: slot -> [x, topHeight, scored]
    birdY, birdV, loopRef,            \* useRef
    closureScore,                     \* score seen by the interval callback's triggerGameOver
    pendingTicks, pendingGameOver,    \* queued state updates
    jumps,                            \* presses counted against MaxJumps
    lastOp,                           \* the handler that ran last
    lastGained, lastBoth,             \* last render: points gained; scored and collided in one tick
    pressedWhileOver,                 \* a press arrived since the game ended
    passCount,                        \* slot -> times scored since it was last placed
    recycles,                         \* recycles since the game started
    pressesSinceTick,                 \* presses since the last tick
    probe                             \* a pair of rectangles given to intersects

vars == <<windowHeight, running, gameOver, score, best, pipes, birdY, birdV,
          loopRef, closureScore, pendingTicks, pendingGameOver, jumps, lastOp,
          lastGained, lastBoth, pressedWhileOver, passCount, recycles,
          pressesSinceTick, probe>>

SCREEN_HEIGHT == windowHeight
maxTop == SCREEN_HEIGHT - 2000

\* Values randomTopHeight() can return, whole pixels:
\* Math.floor(Math.random() * (maxTop - minTop)) + minTop is in
\* [minTop, maxTop) when maxTop > minTop, and in [maxTop, minTop] otherwise.
randomTopHeight ==
    LET d == (maxTop - minTop) \div 10
    IN  IF d > 0 THEN {minTop + 10 * k : k \in 0..(d - 1)}
        ELSE {minTop + 10 * k : k \in d..0}
\* The values of it the model draws: the least and the greatest.
TopSamples ==
    {h \in randomTopHeight :
        (\A g \in randomTopHeight : h <= g) \/ (\A g \in randomTopHeight : g <= h)}
\* Values of Math.random() * 120 + 60, in [60, 180), that the model draws.
RecycleOffsets == {600, 1300, 1799}

\* No rectangles are under test while the game runs.
NoProbe == "none"

startY == (SCREEN_HEIGHT * 45) \div 100
startX1 == SCREEN_WIDTH + 1000
startX2 == startX1 + (SCREEN_WIDTH * 6) \div 10

\* useState initialiser of pipes, and the updater of resetGame.
initialPipes(t1, t2) ==
    [i \in Slots |-> IF i = 1
                     THEN [x |-> startX1, topHeight |-> t1, scored |-> FALSE]
                     ELSE [x |-> startX2, topHeight |-> t2, scored |-> FALSE]]

Phase ==
    IF running THEN "Running" ELSE IF gameOver THEN "GameOver" ELSE "Idle"

\* The App as constructed in a window h high.
AppInit(h) ==
    /\ windowHeight = h
    /\ recycles = 0
    /\ pressesSinceTick = 0
    /\ running = FALSE
    /\ gameOver = FALSE
    /\ score = 0
    /\ best = 0
    /\ \E t1 \in TopSamples, t2 \in TopSamples : pipes = initialPipes(t1, t2)
    /\ birdY = startY
    /\ birdV = 0
    /\ loopRef = NoTimer
    /\ closureScore = 0
    /\ pendingTicks = 0
    /\ pendingGameOver = FALSE
    /\ jumps = 0
    /\ lastOp = "init"
    /\ lastGained = 0
    /\ lastBoth = FALSE
    /\ pressedWhileOver = FALSE
    /\ passCount = [i \in Slots |-> 0]

InitWindow(h) == probe = NoProbe /\ AppInit(h)

Init == InitWindow(ReferenceHeight)

\* ------------------------------------------------------------- geometry
intersectsStrict(r, s) ==
    ~(r.x2 <= s.x1 \/ r.x1 >= s.x2 \/ r.y2 <= s.y1 \/ r.y1 >= s.y2)
intersects(r, s) ==
    ~(r.x2 < s.x1 \/ r.x1 > s.x2 \/ r.y2 < s.y1 \/ r.y1 > s.y2)

birdRect(y) == [x1 |-> BIRD_X, y1 |-> y, x2 |-> BIRD_X + BIRD_SIZE, y2 |-> y + BIRD_SIZE]
topPipe(p) == [x1 |-> p.x, y1 |-> 0, x2 |-> p.x + PIPE_WIDTH, y2 |-> p.topHeight]
bottomPipe(p) ==
    [x1 |-> p.x, y1 |-> p.topHeight + PIPE_GAP, x2 |-> p.x + PIPE_WIDTH, y2 |-> SCREEN_HEIGHT]

hitsPipe(p, y) ==
    intersects(birdRect(y), topPipe(p)) \/ intersects(birdRect(y), bottomPipe(p))

birdCenterX == BIRD_X + BIRD_SIZE \div 2

\* The scoring test of the second updater.
newlyScoredNoFlag(p) == birdCenterX > p.x + PIPE_WIDTH
newlyScored(p) == ~p.scored /\ birdCenterX > p.x + PIPE_WIDTH

\* ------------------------------------------------------- first updater
offScreen(x) == x + PIPE_WIDTH < 0

\* One pipe of the first updater: move, and recycle with the draws r.
movePipeKeepsScored(p, r) ==
    LET x1 == p.x - PIPE_SPEED
    IN  IF offScreen(x1)
        THEN [x |-> SCREEN_WIDTH + r.off, topHeight |-> r.top, scored |-> p.scored]
        ELSE [p EXCEPT !.x = x1]
movePipeInclusive(p, r) ==
    LET x1 == p.x - PIPE_SPEED
    IN  IF x1 + PIPE_WIDTH <= 0
        THEN [x |-> SCREEN_WIDTH + r.off, topHeight |-> r.top, scored |-> FALSE]
        ELSE [p EXCEPT !.x = x1]
movePipe(p, r) ==
    LET x1 == p.x - PIPE_SPEED
    IN  IF offScreen(x1)
        THEN [x |-> SCREEN_WIDTH + r.off, topHeight |-> r.top, scored |-> FALSE]
        ELSE [p EXCEPT !.x = x1]

\* ------------------------------------------------------ triggerGameOver
\* The updater of setBest, with the score its closure holds.
bestUpdater(b, s) == IF s > b THEN s ELSE b

\* best after a render that left the score at s: setBest runs only when a
\* triggerGameOver was called (over), with the score cs of its closure.
bestTracksScore(b, s, over, cs) == IF s > b THEN s ELSE b
bestAfterRender(b, s, over, cs) == IF over THEN bestUpdater(b, cs) ELSE b

\* setScore((s) => s + gained), called when gained > 0.
scoreUpdateSuppressed(s, gained, collided) ==
    IF gained > 0 /\ ~collided THEN s + gained ELSE s
scoreUpdate(s, gained, collided) == IF gained > 0 THEN s + gained ELSE s

\* ----------------------------------------------- one tick's two updaters
\* acc: [pipes, score, collided, gained, both, pass, recycles]; y is birdY.current when
\* the updaters run; rnd: slot -> the draws of a recycle.
tickUpdaters(acc, y, rnd) ==
    LET moved == [i \in Slots |-> movePipe(acc.pipes[i], rnd[i])]
        recycled == {i \in Slots : offScreen(acc.pipes[i].x - PIPE_SPEED)}
        hit == \E i \in Slots : hitsPipe(moved[i], y)
        scorers == {i \in Slots : newlyScored(moved[i])}
        gained == Cardinality(scorers)
    IN  [pipes |-> [i \in Slots |-> IF i \in scorers
                                    THEN [moved[i] EXCEPT !.scored = TRUE]
                                    ELSE moved[i]],
         score |-> scoreUpdate(acc.score, gained, hit),
         collided |-> acc.collided \/ hit,
         gained |-> acc.gained + gained,
         both |-> acc.both \/ (hit /\ gained > 0),
         pass |-> [i \in Slots |->
                     (IF i \in recycled THEN 0 ELSE acc.pass[i])
                     + (IF i \in scorers THEN 1 ELSE 0)],
         recycles |-> acc.recycles + Cardinality(recycled)]

RECURSIVE runUpdaters(_, _, _, _)
runUpdaters(n, acc, y, rnd) ==
    IF n = 0 THEN acc ELSE runUpdaters(n - 1, tickUpdaters(acc, y, rnd), y, rnd)

\* ------------------------------------------------- the effect on [running]
\* loopRef after a render in which running went from r0 to r1.
loopEffectNeverStarts(r0, r1, loop) ==
    IF r0 = r1 THEN loop ELSE NoTimer
loopEffect(r0, r1, loop) ==
    IF r0 = r1 THEN loop ELSE IF r1 THEN Timer ELSE NoTimer

\* --------------------------------------------------------- startIfNeeded
startAlways(r, g) == TRUE
startIfNeeded(r, g) == IF ~r /\ ~g THEN TRUE ELSE r

\* birdV.current after startIfNeeded, from running, gameOver and birdV.current.
impulseAdded(r, g, v) == v + JUMP_VELOCITY
impulseOnlyRunning(r, g, v) == IF r THEN JUMP_VELOCITY ELSE v
impulse(r, g, v) == JUMP_VELOCITY

Press ==
    /\ running /\ ~gameOver =>
          IF pressesSinceTick = 0 THEN jumps < MaxJumps
          ELSE pressesSinceTick <= MaxRepeat
    /\ running' = startIfNeeded(running, gameOver)
    /\ birdV' = impulse(running, gameOver, birdV)
    /\ loopRef' = loopEffect(running, running', loopRef)
    /\ closureScore' = IF running' /\ ~running THEN score ELSE closureScore
    /\ jumps' = IF running
                THEN (IF pressesSinceTick = 0 THEN jumps + 1 ELSE jumps)
                ELSE IF gameOver THEN jumps ELSE 0
    /\ pressesSinceTick' = IF gameOver THEN pressesSinceTick
                           ELSE pressesSinceTick + 1
    /\ lastOp' = "press"
    /\ lastGained' = 0
    /\ lastBoth' = FALSE
    /\ pressedWhileOver' = gameOver
    /\ UNCHANGED <<gameOver, score, best, pipes, birdY, pendingTicks,
                   pendingGameOver, passCount, recycles, windowHeight, probe>>

\* ------------------------------------------------------------- resetGame
resetGameKeepsVelocity(v) == [score |-> 0, birdY |-> startY, birdV |-> v]
resetGame(v) == [score |-> 0, birdY |-> startY, birdV |-> 0]

Reset ==
    /\ gameOver
    /\ running' = FALSE
    /\ gameOver' = FALSE
    /\ score' = resetGame(birdV).score
    /\ birdY' = resetGame(birdV).birdY
    /\ birdV' = resetGame(birdV).birdV
    /\ \E t1 \in TopSamples, t2 \in TopSamples : pipes' = initialPipes(t1, t2)
    /\ loopRef' = loopEffect(running, FALSE, loopRef)
    /\ passCount' = [i \in Slots |-> 0]
    /\ recycles' = 0
    /\ pressesSinceTick' = 0
    /\ lastOp' = "reset"
    /\ lastGained' = 0
    /\ lastBoth' = FALSE
    /\ UNCHANGED <<best, closureScore, pendingTicks, pendingGameOver, jumps,
                   pressedWhileOver, windowHeight, probe>>

\* ------------------------------------------------- the interval callback
integrateExplicit(y, v) == [v |-> v + GRAVITY, y |-> y + v]
integrate(y, v) == [v |-> v + GRAVITY, y |-> y + (v + GRAVITY)]

clampTopMissing(y) == y
clampTop(y) == IF y < 0 THEN 0 ELSE y

hitsFloor(y) == y + BIRD_SIZE > SCREEN_HEIGHT

\* Queued updater pairs after a callback that put the bird on the floor: it
\* returns before its setPipes calls.
floorReturnMissing(n) == n + 1
floorReturn(n) == n

Tick ==
    /\ loopRef = Timer
    /\ pendingTicks <= MaxBacklog
    /\ LET b == integrate(birdY, birdV)
           y == clampTop(b.y)
       IN  /\ birdV' = b.v
           /\ IF hitsFloor(y)
              THEN /\ birdY' = SCREEN_HEIGHT - BIRD_SIZE
                   /\ loopRef' = NoTimer
                   /\ pendingGameOver' = TRUE
                   /\ pendingTicks' = floorReturn(pendingTicks)
              ELSE /\ birdY' = y
                   /\ pendingTicks' = pendingTicks + 1
                   /\ UNCHANGED <<loopRef, pendingGameOver>>
    /\ lastOp' = "tick"
    /\ lastGained' = 0
    /\ lastBoth' = FALSE
    /\ pressesSinceTick' = 0
    /\ UNCHANGED <<running, gameOver, score, best, pipes, closureScore, jumps,
                   passCount, pressedWhileOver, recycles, windowHeight, probe>>

\* ------------------------------------------------------------ the render
noDraw == [i \in Slots |-> [off |-> 600, top |-> minTop]]
Draws == [Slots -> [off : RecycleOffsets, top : TopSamples]]

willRecycle ==
    \E i \in Slots : offScreen(pipes[i].x - PIPE_SPEED * pendingTicks)

Render ==
    /\ pendingTicks > 0 \/ pendingGameOver
    /\ \E rnd \in (IF willRecycle THEN Draws ELSE {noDraw}) :
        LET acc0 == [pipes |-> pipes, score |-> score, collided |-> FALSE,
                     gained |-> 0, both |-> FALSE, pass |-> passCount,
                     recycles |-> recycles]
            acc == runUpdaters(pendingTicks, acc0, birdY, rnd)
            over == acc.collided \/ pendingGameOver
        IN  /\ pipes' = acc.pipes
            /\ score' = acc.score
            /\ passCount' = acc.pass
            /\ recycles' = acc.recycles
            /\ lastGained' = acc.gained
            /\ lastBoth' = acc.both
            /\ gameOver' = (gameOver \/ over)
            /\ running' = (running /\ ~over)
            /\ best' = bestAfterRender(best, acc.score, over, closureScore)
            /\ loopRef' = loopEffect(running, running',
                                     IF over THEN NoTimer ELSE loopRef)
    /\ pendingTicks' = 0
    /\ pendingGameOver' = FALSE
    /\ lastOp' = "render"
    /\ UNCHANGED <<birdY, birdV, closureScore, jumps, pressedWhileOver,
                   pressesSinceTick, windowHeight, probe>>

Next == Press \/ Reset \/ Tick \/ Render

Spec == Init /\ [][Next]_vars

\* A render is due: the guard of Render, which is ENABLED <<Render>>_vars.
RenderDue == pendingTicks > 0 \/ pendingGameOver

\* The interval fires while it is set, and React renders what is queued:
\* weak fairness of Tick and of Render, the latter with its enabling
\* condition written out.
FairSpec ==
    /\ Init
    /\ [][Next]_vars
    /\ WF_vars(Tick)
    /\ ([]<>(~RenderDue) \/ []<><<Render>>_vars)

\* The same program in the 250 high window.
InitSmall == InitWindow(SmallHeight)
SpecSmall == InitSmall /\ [][Next]_vars

\* A running game between two ticks, every queued update rendered.
MidGame(y, v, ps, s, r, pc) ==
    /\ windowHeight = ReferenceHeight
    /\ probe = NoProbe
    /\ recycles = r
    /\ pressesSinceTick = 0
    /\ running = TRUE
    /\ gameOver = FALSE
    /\ score = s
    /\ best = 0
    /\ pipes = ps
    /\ birdY = y
    /\ birdV = v
    /\ loopRef = Timer
    /\ closureScore = 0
    /\ pendingTicks = 0
    /\ pendingGameOver = FALSE
    /\ jumps = 0
    /\ lastOp = "render"
    /\ lastGained = 0
    /\ lastBoth = FALSE
    /\ pressedWhileOver = FALSE
    /\ passCount = pc

\* The first game after its 74th tick: both top heights drawn as 99, started
\* by a press and pressed again after ticks 1 and 41; no pipe has reached
\* the bird's centre yet.
Tick74 ==
    MidGame(1872, 93,
            [i \in Slots |-> [x |-> IF i = 1 THEN -168 ELSE 552,
                              topHeight |-> 990, scored |-> FALSE]],
            0, 0, [i \in Slots |-> 0])

\* The first game after its 189th tick: pressed after ticks 43, 74, 111, 145
\* and 176; pipe 1 was recycled in tick 91 with the draw 130 and pipe 2 in
\* tick 114 with the draw 60, both with top height 99, and the bird has
\* passed both pipes twice.
Tick189 ==
    MidGame(1467, -27,
            [i \in Slots |-> [x |-> IF i = 1 THEN -636 ELSE -600,
                              topHeight |-> 990, scored |-> TRUE]],
            4, 2, [i \in Slots |-> 1])

\* The program late in a game, where pipes leave the screen.
InitLate == Tick74 \/ Tick189
SpecLate == InitLate /\ [][Next]_vars

\* ------------------------------------------------- intersects on its own
\* Rectangles with x1 <= x2 and y1 <= y2, corners in 0..MaxCoord.
Rects ==
    {q \in [x1 : 0..MaxCoord, y1 : 0..MaxCoord, x2 : 0..MaxCoord, y2 : 0..MaxCoord] :
        q.x1 <= q.x2 /\ q.y1 <= q.y2}

InitIntersects ==
    /\ AppInit(ReferenceHeight)
    /\ \E r \in Rects, s \in Rects :
          probe = [r |-> r, s |-> s, called |-> FALSE, result |-> FALSE]

\* The call intersects(r, s).
CallIntersects ==
    /\ ~probe.called
    /\ probe' = [probe EXCEPT !.called = TRUE,
                              !.result = intersects(probe.r, probe.s)]
    /\ UNCHANGED <<windowHeight, running, gameOver, score, best, pipes, birdY,
                   birdV, loopRef, closureScore, pendingTicks, pendingGameOver,
                   jumps, lastOp, lastGained, lastBoth, pressedWhileOver,
                   passCount, recycles, pressesSinceTick>>

SpecIntersects == InitIntersects /\ [][CallIntersects]_vars

\* ================================================================ claims
Max(a, b) == IF a > b THEN a ELSE b

\* C1: on every Running -> GameOver transition, best after the transition
\* equals max(best before it, score at the collision), the score being read
\* either before or after the points of the colliding tick are added.
C1_BestIsMaxAtGameOver ==
    [][(Phase = "Running" /\ Phase' = "GameOver")
         => (best' = Max(best, score) \/ best' = Max(best, score'))]_vars

\* C2: the phase changes only along Idle -> Running (a press), Running ->
\* GameOver (the render of a tick that collided) and GameOver -> Idle (reset);
\* no step goes from Idle to GameOver or from GameOver to Running.
C2_PhaseTransitions ==
    [][\/ Phase' = Phase
       \/ Phase = "Idle" /\ Phase' = "Running" /\ lastOp' = "press"
       \/ Phase = "Running" /\ Phase' = "GameOver" /\ lastOp' = "render"
       \/ Phase = "GameOver" /\ Phase' = "Idle" /\ lastOp' = "reset"]_vars

\* A game was started, ended and reset: all three transitions were taken.
C2_Witness == lastOp = "reset" /\ Phase = "Idle"

\* C3: a press received while the phase is GameOver changes none of phase,
\* score, best, bird position, bird velocity and pipes.
C3_PressIgnoredInGameOver ==
    [][(Phase = "GameOver" /\ lastOp' = "press")
         => UNCHANGED <<running, gameOver, score, best, birdY, birdV, pipes>>]_vars

\* C4: reset in GameOver gives phase Idle, score 0, the bird at 0.45 *
\* screenHeight with velocity 0, the two pipes at screenWidth + 100 and
\* screenWidth + 100 + 0.6 * screenWidth with scored false, and best as it
\* was, whatever was pressed while the game was over.
C4_ResetRestoresDefaults ==
    [][(Phase = "GameOver" /\ lastOp' = "reset")
         => /\ Phase' = "Idle"
            /\ score' = 0
            /\ 100 * birdY' = 45 * SCREEN_HEIGHT
            /\ birdV' = 0
            /\ pipes'[1].x = SCREEN_WIDTH + 1000
            /\ 10 * pipes'[2].x = 10 * (SCREEN_WIDTH + 1000) + 6 * SCREEN_WIDTH
            /\ \A i \in Slots : ~pipes'[i].scored
            /\ best' = best]_vars

\* Reset has run after a press that arrived while the game was over.
C4_Witness == lastOp = "reset" /\ pressedWhileOver

\* C5: once triggerGameOver has stopped the interval, no tick work (a timer
\* callback or a queued updater) changes the bird, the pipes or the score.
C5_NoTickWorkAfterStop ==
    [][(loopRef = NoTimer /\ lastOp' \in {"tick", "render"})
         => UNCHANGED <<birdY, birdV, pipes, score>>]_vars

\* C6: a tick in which a pipe newly scores and a pipe block intersects the
\* bird adds the points gained to score and ends the game in that same step.
C6_ScoreAppliedOnCollisionTick ==
    [][(lastOp' = "render" /\ lastBoth')
         => /\ lastGained' >= 1
            /\ score' = score + lastGained'
            /\ Phase' = "GameOver"]_vars

C6_Witness == lastOp = "render" /\ lastBoth /\ gameOver /\ score >= 1

\* Slots whose scored flag a step turns from false to true.
FlagsRaised == {i \in Slots : ~pipes[i].scored /\ pipes'[i].scored}

FloorTick ==
    /\ lastOp' = "tick"
    /\ birdY + birdV + GRAVITY + BIRD_SIZE > SCREEN_HEIGHT

\* C8: a tick whose integration gives position + birdSize > screenHeight
\* clamps the position to screenHeight - birdSize, triggers the game over and
\* does nothing else: no pipe moves or recycles, no scored flag and no score
\* changes, and the render that follows ends in GameOver.
C8_FloorTickShortCircuits ==
    [][/\ FloorTick => /\ birdY' = SCREEN_HEIGHT - BIRD_SIZE
                       /\ loopRef' = NoTimer
                       /\ pendingGameOver'
                       /\ UNCHANGED <<pipes, score, pendingTicks, passCount>>
       /\ (pendingGameOver /\ lastOp' = "render") => Phase' = "GameOver"]_vars

C8_Witness ==
    lastOp = "tick" /\ pendingGameOver /\ birdY = SCREEN_HEIGHT - BIRD_SIZE

\* C9: in every reachable state 0 <= birdY <= screenHeight - birdSize.
C9_BirdOnScreen == 0 <= birdY /\ birdY <= SCREEN_HEIGHT - BIRD_SIZE

\* The bird held at the ceiling by the clamp while still moving up.
C9_Witness == lastOp = "tick" /\ birdY = 0 /\ birdV < 0

\* A timer callback whose integration needs no clamp.
FreeTick ==
    /\ lastOp' = "tick"
    /\ 0 <= birdY + birdV + GRAVITY
    /\ birdY + birdV + GRAVITY + BIRD_SIZE <= SCREEN_HEIGHT

\* C10 as stated: a tick without clamping adds gravity to the velocity and
\* moves the position by the velocity before the tick.
C10_PositionByPreTickVelocity ==
    [][FreeTick => birdV' = birdV + GRAVITY /\ birdY' = birdY + birdV]_vars

\* C10 as amended: a tick without clamping adds gravity to the velocity and
\* moves the position by the velocity after that addition.
C10_PositionByNewVelocity ==
    [][FreeTick => birdV' = birdV + GRAVITY /\ birdY' = birdY + birdV']_vars

C10_Witness ==
    lastOp = "tick" /\ 0 < birdY /\ birdY < SCREEN_HEIGHT - BIRD_SIZE /\ birdV > 0

\* randomTopHeight's range [minTop, SCREEN_HEIGHT - 200) is empty.
ConfigInvalid == SCREEN_HEIGHT - 2000 <= minTop

\* C11: in every reachable state every pipe has minTop <= topHeight <=
\* screenHeight - gapSize - minBottomMargin (screenHeight - 200), so that the
\* gap [topHeight, topHeight + gapSize] is on screen.
C11_TopHeightInRange ==
    \A i \in Slots :
        /\ minTop <= pipes[i].topHeight
        /\ pipes[i].topHeight <= SCREEN_HEIGHT - 2000
        /\ pipes[i].topHeight + PIPE_GAP <= SCREEN_HEIGHT

\* C12: a window for which randomTopHeight's range is empty is rejected when
\* the session is constructed: no state with pipes exists and no tick runs.
C12_InvalidConfigRejected ==
    ConfigInvalid => (\A i \in Slots : i \notin DOMAIN pipes) /\ lastOp # "tick"

\* C13: a render of one tick moves every pipe 3.2 to the left; a pipe is
\* recycled exactly when its right edge is then strictly left of 0, and gets
\* x in [SCREEN_WIDTH + 60, SCREEN_WIDTH + 180), a drawn top height and
\* scored = false; any other pipe keeps its top height, and its scored flag
\* changes only if the scoring of the same tick raises it; both slots stay.
C13_PipeAdvance ==
    [][(lastOp' = "render" /\ pendingTicks = 1) =>
          /\ DOMAIN pipes' = Slots
          /\ \A i \in Slots :
                LET x1 == pipes[i].x - PIPE_SPEED
                IN  IF x1 + PIPE_WIDTH < 0
                    THEN /\ SCREEN_WIDTH + 600 <= pipes'[i].x
                         /\ pipes'[i].x < SCREEN_WIDTH + 1800
                         /\ pipes'[i].topHeight \in randomTopHeight
                         /\ ~pipes'[i].scored
                    ELSE /\ pipes'[i].x = x1
                         /\ pipes'[i].topHeight = pipes[i].topHeight
                         /\ pipes'[i].scored =
                              (pipes[i].scored \/ birdCenterX > x1 + PIPE_WIDTH)]_vars

\* A pipe whose right edge was exactly at 0 stayed, and the next tick
\* recycled it while the other pipe moved on.
C13_Witness ==
    /\ lastOp = "render"
    /\ recycles = 3
    /\ pipes[1].x = SCREEN_WIDTH + 1300
    /\ pipes[2].x = -696
    /\ pipes[2].scored

\* The points with whole coordinates of a rectangle, its edges included.
Points(q) == {pt \in (0..MaxCoord) \X (0..MaxCoord) :
                /\ q.x1 <= pt[1] /\ pt[1] <= q.x2
                /\ q.y1 <= pt[2] /\ pt[2] <= q.y2}

\* C14: intersects(r, s) is true exactly when neither rectangle is strictly
\* left of, right of, above or below the other, that is, when the two closed
\* rectangles have a point in common; rectangles that only share the edge
\* r.x2 = s.x1, with overlapping y ranges, intersect.
C14_IntersectsInclusive ==
    probe.called =>
        /\ probe.result = (Points(probe.r) \cap Points(probe.s) # {})
        /\ (/\ probe.r.x2 = probe.s.x1
            /\ probe.r.y1 <= probe.s.y2
            /\ probe.s.y1 <= probe.r.y2) => probe.result

\* Two rectangles of positive size that share one edge and nothing else.
C14_Witness ==
    /\ probe.called
    /\ probe.result
    /\ probe.r.x1 < probe.r.x2 /\ probe.r.y1 < probe.r.y2
    /\ probe.s.x1 < probe.s.x2 /\ probe.s.y1 < probe.s.y2
    /\ probe.r.x2 = probe.s.x1

\* C15: a press in Running sets the velocity to JUMP_VELOCITY whatever it
\* was, keeps the phase and changes nothing else; a press that follows
\* another one with no tick in between changes nothing at all, so any number
\* of presses between two ticks leaves the state of a single press.
C15_ImpulseOverwrites ==
    [][(Phase = "Running" /\ lastOp' = "press") =>
          /\ birdV' = JUMP_VELOCITY
          /\ Phase' = "Running"
          /\ UNCHANGED <<running, gameOver, score, best, pipes, birdY, loopRef,
                         closureScore, pendingTicks, pendingGameOver>>
          /\ (pressesSinceTick >= 1 => birdV' = birdV)]_vars

\* Two presses after the same tick of a running game.
C15_Witness ==
    /\ Phase = "Running"
    /\ lastOp = "press"
    /\ jumps = 1
    /\ pressesSinceTick = 2
    /\ birdY # startY

\* The interval callback runs for the first time in a game.
FirstTick ==
    /\ Phase = "Running"
    /\ pendingTicks = 0
    /\ birdY = startY
    /\ pipes[1].x = startX1
    /\ lastOp' = "tick"

\* C16: a press in Idle makes the phase Running, sets the velocity to
\* JUMP_VELOCITY and starts the interval, leaving bird position, pipes and
\* score alone; the first tick then integrates from that velocity; and while
\* the phase is Idle nothing but a press takes a step, so no tick runs.
C16_StartImpulseBeforeFirstTick ==
    [][/\ Phase = "Idle" =>
             /\ lastOp' = "press"
             /\ Phase' = "Running"
             /\ birdV' = JUMP_VELOCITY
             /\ loopRef' = Timer
             /\ UNCHANGED <<birdY, pipes, score>>
       /\ FirstTick =>
             /\ birdV = JUMP_VELOCITY
             /\ birdV' = JUMP_VELOCITY + GRAVITY
             /\ birdY' = startY + JUMP_VELOCITY + GRAVITY]_vars

\* After the first tick of a game, before its render.
C16_Witness ==
    /\ lastOp = "tick"
    /\ Phase = "Running"
    /\ pendingTicks = 1
    /\ pipes[1].x = startX1
    /\ birdY = startY + JUMP_VELOCITY + GRAVITY
    /\ birdV = JUMP_VELOCITY + GRAVITY

\* C17: best changes only in the step that takes the phase from Running to
\* GameOver: a press, a reset, a tick and a render without collision leave it
\* as it was; and no step lowers it.
C17_BestWrittenAtGameOverOnly ==
    [][/\ best' >= best
       /\ best' # best => (Phase = "Running" /\ Phase' = "GameOver")
       /\ (lastOp' \in {"press", "reset", "tick"} \/ Phase' # "GameOver")
             => best' = best]_vars

\* A game has ended with points gained.
C17_Witness ==
    /\ lastOp = "render"
    /\ Phase = "GameOver"
    /\ score >= 1
    /\ best <= score

Abs(n) == IF n < 0 THEN -n ELSE n

\* C18: the horizontal extents of the two pipes never overlap: their x
\* differ by PIPE_WIDTH or more, whatever the recycles drew.
C18_PipesNeverOverlap == Abs(pipes[1].x - pipes[2].x) >= PIPE_WIDTH

\* C20: in every state of a game the score is the number of recycles since
\* the game started plus the number of pipes whose scored flag is set; so no
\* pipe is recycled with its flag still unset.
C20_ScoreCountsPasses ==
    score = recycles + Cardinality({i \in Slots : pipes[i].scored})

\* A running game in which one pipe was passed and recycled and the other
\* is passed and still on its way out.
C20_Witness ==
    /\ Phase = "Running"
    /\ recycles = 1
    /\ score = 2
    /\ pipes[2].scored
    /\ ~pipes[1].scored

\* C19: a running game whose interval keeps firing reaches GameOver once the
\* presses stop (a game takes MaxJumps presses at most, and MaxRepeat
\* repeated ones after each tick): gravity is added in every tick, also
\* while the bird is held at the ceiling, until a pipe or the floor is hit.
C19_RunningLeadsToGameOver == (Phase = "Running") ~> (Phase = "GameOver")

\* A game in which the bird was sent up once more has ended on the floor.
C19_Witness ==
    /\ Phase = "GameOver"
    /\ jumps = MaxJumps
    /\ birdY = SCREEN_HEIGHT - BIRD_SIZE
    /\ birdV > 0

====
